---- MODULE Spec2Model ----
(***************************************************************************)
(* compatctl: motion sensor + XInput gamepad -> virtual DualShock 4 report *)
(* (src/src/main.rs).                                                      *)
(*                                                                         *)
(* Number representation.  The program computes on f64.  The model uses    *)
(* fixed point: an angular velocity is an integer number of tenths of a    *)
(* degree/second and an acceleration an integer number of tenths of the    *)
(* accelerometer unit, so that the literals of the source (-124.1, 124.4,  *)
(* 10.0, 2000.0, 9.8) are exact integers.  f64::round is round half away   *)
(* from zero; on every input of the model the f64 expression of the source *)
(* and the exact rational rounding below give the same integer after the   *)
(* cast (compared exhaustively outside the model).  NaN and the infinities *)
(* are not inputs of the model.                                            *)
(***************************************************************************)
EXTENDS Integers, Sequences, FiniteSets, TLC

(***************************************************************************)
(* Program constants (fixed point where the source has a decimal literal). *)
(***************************************************************************)
I16_MAX == 32767
I16_MIN == -32768
U8_MAX == 255
U16_MOD == 65536
\* MAX_DPS = 2000.0 degrees/second, in tenths
MAX_DPS == 20000
\* SCALE_FACTOR = 84626.0
SCALE_FACTOR == 84626
\* umdf_max = 9.8, in tenths
umdf_max == 98
\* the fault threshold -124.1, in tenths
FaultThreshold == -1241
\* the floor 124.4 of the synthetic value, in tenths
SynthFloor == 1244
\* inertia = 10.0 degrees/second per glitched tick, in tenths
inertia == 100
\* timestamp.wrapping_add(188)
TimestampStep == 188
\* the period of the emission timer in microseconds, line 138
IntervalMicros == 1250
\* the stick byte of a fresh DS4ReportExBuilder (0x80)
StickRest == 128

(***************************************************************************)
(* Arithmetic of the conversions.                                          *)
(***************************************************************************)
\* f64::clamp(lo, hi)
Clamp(v, lo, hi) == IF v < lo THEN lo ELSE IF v > hi THEN hi ELSE v

\* (n / d).round() for d > 0: the nearest integer, a tie away from zero
RoundDiv(n, d) ==
    IF n >= 0 THEN (2 * n + d) \div (2 * d)
    ELSE -((2 * (-n) + d) \div (2 * d))

\* a cast that wraps modulo 2^16 into the signed range (what a C cast does)
WrapToI16(v) == ((v - I16_MIN) % U16_MOD) + I16_MIN

\* `as i16` on an integral f64: Rust's float-to-int cast saturates
F64ToI16(v) == Clamp(v, I16_MIN, I16_MAX)

\* `as u8` on an integral f64: saturates
F64ToU8(v) == Clamp(v, 0, U8_MAX)

\* normalize_i16_to_u8 with the inversion dropped
normalize_no_flip(value, flip) ==
    F64ToU8(RoundDiv((value + 32768) * 255, 65535))

\* fn normalize_i16_to_u8(value: i16, flip: bool) -> u8
normalize_i16_to_u8(value, flip) ==
    IF flip
    THEN 255 - F64ToU8(RoundDiv((value + 32768) * 255, 65535))
    ELSE F64ToU8(RoundDiv((value + 32768) * 255, 65535))

\* map_dpad_directions with the west column mirrored
map_dpad_mirrored(up, down, left, right) ==
    CASE <<up, down, left, right>> = <<TRUE, FALSE, FALSE, FALSE>> -> "North"
      [] <<up, down, left, right>> = <<TRUE, FALSE, FALSE, TRUE>> -> "NorthWest"
      [] <<up, down, left, right>> = <<FALSE, FALSE, FALSE, TRUE>> -> "East"
      [] <<up, down, left, right>> = <<FALSE, TRUE, FALSE, TRUE>> -> "SouthEast"
      [] <<up, down, left, right>> = <<FALSE, TRUE, FALSE, FALSE>> -> "South"
      [] <<up, down, left, right>> = <<FALSE, TRUE, TRUE, FALSE>> -> "SouthWest"
      [] <<up, down, left, right>> = <<FALSE, FALSE, TRUE, FALSE>> -> "West"
      [] <<up, down, left, right>> = <<TRUE, FALSE, TRUE, FALSE>> -> "NorthEast"
      [] OTHER -> "None"

\* fn map_dpad_directions(up, down, left, right) -> DpadDirection
map_dpad_directions(up, down, left, right) ==
    CASE <<up, down, left, right>> = <<TRUE, FALSE, FALSE, FALSE>> -> "North"
      [] <<up, down, left, right>> = <<TRUE, FALSE, FALSE, TRUE>> -> "NorthEast"
      [] <<up, down, left, right>> = <<FALSE, FALSE, FALSE, TRUE>> -> "East"
      [] <<up, down, left, right>> = <<FALSE, TRUE, FALSE, TRUE>> -> "SouthEast"
      [] <<up, down, left, right>> = <<FALSE, TRUE, FALSE, FALSE>> -> "South"
      [] <<up, down, left, right>> = <<FALSE, TRUE, TRUE, FALSE>> -> "SouthWest"
      [] <<up, down, left, right>> = <<FALSE, FALSE, TRUE, FALSE>> -> "West"
      [] <<up, down, left, right>> = <<TRUE, FALSE, TRUE, FALSE>> -> "NorthWest"
      [] OTHER -> "None"

\* convert_umdf_gyro_to_dualshock without the first clamp, the cast wrapping
convert_gyro_unclamped(umdf_value) ==
    WrapToI16(RoundDiv(umdf_value * I16_MAX, MAX_DPS))

\* fn convert_umdf_gyro_to_dualshock(umdf_value: f64) -> i16
\* scale_factor = I16_MAX / MAX_DPS; clamp, scale, round, clamp, cast
convert_umdf_gyro_to_dualshock(umdf_value) ==
    F64ToI16(Clamp(RoundDiv(Clamp(umdf_value, -MAX_DPS, MAX_DPS) * I16_MAX, MAX_DPS),
                   I16_MIN, I16_MAX))

\* fn convert_umdf_gyro_to_dualshock_x(umdf_value: f64) -> i16  (scale = 1.0)
convert_umdf_gyro_to_dualshock_x(umdf_value) ==
    F64ToI16(Clamp(convert_umdf_gyro_to_dualshock(umdf_value) * 1, I16_MIN, I16_MAX))

\* fn convert_umdf_gyro_to_dualshock_y(umdf_value: f64) -> i16  (scale = 1.0)
convert_umdf_gyro_to_dualshock_y(umdf_value) ==
    F64ToI16(Clamp(convert_umdf_gyro_to_dualshock(umdf_value) * 1, I16_MIN, I16_MAX))

\* fn convert_umdf_gyro_to_dualshock_z(umdf_value: f64) -> i16  (scale = 1.0)
convert_umdf_gyro_to_dualshock_z(umdf_value) ==
    F64ToI16(Clamp(convert_umdf_gyro_to_dualshock(umdf_value) * 1, I16_MIN, I16_MAX))

\* fn convert_umdf_accel_to_dualshock(umdf_value: f64) -> i16
\* clamp, divide by umdf_max, times SCALE_FACTOR, round, `as i16`
convert_umdf_accel_to_dualshock(umdf_value) ==
    F64ToI16(RoundDiv(Clamp(umdf_value, -umdf_max, umdf_max) * SCALE_FACTOR, umdf_max))

\* struct GyroData / AccelData, and their Default
Vec3(a, b, c) == [x |-> a, y |-> b, z |-> c]
GyroDataDefault == Vec3(0, 0, 0)
AccelDataDefault == Vec3(0, 0, 0)

\* fn legion_go_gyro_axis_swap(raw: GyroData) -> GyroData
legion_go_gyro_axis_swap(raw) == [x |-> -raw.x, y |-> raw.z, z |-> raw.y]

\* fn legion_go_accel_axis_swap(raw: AccelData) -> AccelData
legion_go_accel_axis_swap(raw) == [x |-> raw.x, y |-> -raw.z, z |-> -raw.y]


(***************************************************************************)
(* Option<T>: None is the empty sequence, Some(v) the one-element sequence. *)
(***************************************************************************)
None == <<>>
Some(v) == <<v>>
IsSome(o) == Len(o) = 1

\* Result<T, E>::unwrap_or_default() for a motion sample (x = y = z = 0.0)
unwrap_or_default(res) == IF IsSome(res) THEN res[1] ELSE Vec3(0, 0, 0)

\* fn read_gyro(device) -> Result<GyroData>: Err when GetCurrentReading fails
\* (`dev` is what the device answers: None for a failed call)
read_gyro(dev) == dev

\* fn read_accel(device) -> Result<AccelData>
read_accel(dev) == dev

(***************************************************************************)
(* XInputState, as seen through the accessors the program calls.           *)
(***************************************************************************)
XReleased ==
    [north_button |-> FALSE, south_button |-> FALSE, east_button |-> FALSE,
     west_button |-> FALSE, arrow_up |-> FALSE, arrow_down |-> FALSE,
     arrow_left |-> FALSE, arrow_right |-> FALSE, select_button |-> FALSE,
     start_button |-> FALSE, guide_button |-> FALSE,
     left_shoulder |-> FALSE, right_shoulder |-> FALSE,
     left_thumb_button |-> FALSE, right_thumb_button |-> FALSE,
     left_trigger_bool |-> FALSE, right_trigger_bool |-> FALSE,
     left_trigger |-> 0, right_trigger |-> 0,
     left_stick_raw |-> <<0, 0>>, right_stick_raw |-> <<0, 0>>]

XPressed ==
    [north_button |-> TRUE, south_button |-> FALSE, east_button |-> TRUE,
     west_button |-> FALSE, arrow_up |-> TRUE, arrow_down |-> FALSE,
     arrow_left |-> FALSE, arrow_right |-> TRUE, select_button |-> TRUE,
     start_button |-> TRUE, guide_button |-> TRUE,
     left_shoulder |-> TRUE, right_shoulder |-> FALSE,
     left_thumb_button |-> FALSE, right_thumb_button |-> TRUE,
     left_trigger_bool |-> TRUE, right_trigger_bool |-> FALSE,
     left_trigger |-> 255, right_trigger |-> 10,
     left_stick_raw |-> <<32767, -32768>>, right_stick_raw |-> <<-1, 12345>>]

(***************************************************************************)
(* The report under construction (vigem_client::DS4ReportExBuilder).       *)
(***************************************************************************)
\* DS4Buttons::new(): nothing pressed, dpad None
DS4ButtonsNew ==
    [triangle |-> FALSE, cross |-> FALSE, circle |-> FALSE, square |-> FALSE,
     dpad |-> "None", options |-> FALSE, share |-> FALSE,
     shoulder_left |-> FALSE, shoulder_right |-> FALSE,
     thumb_left |-> FALSE, thumb_right |-> FALSE,
     trigger_left |-> FALSE, trigger_right |-> FALSE]

\* DS4SpecialButtons::new()
DS4SpecialButtonsNew == [touchpad |-> FALSE, ps_home |-> FALSE]

\* DS4ReportExBuilder::new(): sticks centred, everything else zero
DS4ReportExBuilderNew ==
    [buttons |-> DS4ButtonsNew, special |-> DS4SpecialButtonsNew,
     thumb_lx |-> StickRest, thumb_ly |-> StickRest,
     thumb_rx |-> StickRest, thumb_ry |-> StickRest,
     trigger_l |-> 0, trigger_r |-> 0,
     gyro_x |-> 0, gyro_y |-> 0, gyro_z |-> 0,
     accel_x |-> 0, accel_y |-> 0, accel_z |-> 0,
     timestamp |-> 0, status |-> "Default"]


(***************************************************************************)
(* State.                                                                  *)
(***************************************************************************)
VARIABLES
    main_pc,          \* where main() is: the startup checks, then the emission loop
    share_flag,       \* ENABLE_DS4_SHARE_BUTTON: OnceLock<bool>, None until set
    xstate_mutex,     \* Mutex<Option<XInputState>>: the gamepad slot
    gyro_mutex,       \* Mutex<GyroData>: the gyro slot
    accel_mutex,      \* Mutex<AccelData>: the accel slot
    lock_owner,       \* per slot, the task inside lock() .. end of scope, or "free"
    published,        \* history: per slot, the value of its latest completed publish
    worker_threads,   \* the runtime's worker threads (#[tokio::main]: one per core)
    x_pc, x_local,    \* gamepad task: position, `xstate`
    x_dev,            \* gamepad task: what get_state_ex returned in the poll in flight
    g_pc, g_local,    \* gyro task: position, `new_gyro_data`
    g_dev,            \* gyro task: what read_gyro returned in the tick in flight
    previous_non_error_reading, broken_time,   \* gyro task: compensator state
    hist_good,        \* history: per axis, its reading in its latest unglitched tick
    hist_run,         \* history: per axis, its consecutive glitched ticks so far
    a_pc, a_local,    \* accel task: position, `accel_data`
    a_dev,            \* accel task: what read_accel returned in the tick in flight
    em_xstate, em_gyro, em_accel,   \* emission loop: `xstate`, `gyro_data`, `accel_data`
    timestamp,        \* emission loop: `timestamp: u16`
    report,           \* emission loop: `report`, None outside build .. update_ex
    cycles,           \* reports handed to update_ex so far
    last_submit,      \* result of the latest update_ex: "none", "ok", "err"
    ticks,            \* returns of interval.tick() so far
    clock,            \* microseconds of real time at the latest return of tick()
    last_emit,        \* history: timestamp and time of the latest report submitted
    r_pc,             \* rumble callback thread: position
    r_report,         \* rumble callback: the latest notification delivered to it
    motors,           \* motor speeds of the latest set_state that succeeded
    call, ret         \* a pure function under test: its call and its result

startVars == <<main_pc, share_flag>>
slotVars == <<xstate_mutex, gyro_mutex, accel_mutex, published>>
xVars == <<x_pc, x_local, x_dev>>
gVars == <<g_pc, g_local, g_dev, previous_non_error_reading, broken_time,
          hist_good, hist_run>>
aVars == <<a_pc, a_local, a_dev>>
paceVars == <<ticks, clock, last_emit>>
emVars == <<em_xstate, em_gyro, em_accel, timestamp, report, cycles, last_submit,
           paceVars>>
rumbleVars == <<r_pc, r_report, motors>>
pureVars == <<call, ret>>
vars == <<startVars, slotVars, lock_owner, worker_threads, xVars, gVars, aVars, emVars,
         rumbleVars, pureVars>>

Slots == {"xstate", "gyro", "accel"}
\* the three tokio::spawn tasks (lines 64, 82, 114)
Tasks == {"xinput", "gyro", "accel"}

\* the slots as lines 58-60 create them
SlotsNew == [xstate |-> None, gyro |-> GyroDataDefault, accel |-> AccelDataDefault]

\* main() entered: nothing parsed, nothing spawned (lines 12-13); the slots and
\* the loop variables hold the values lines 58-60, 84-85 and 137 give them
ProgramInit ==
    /\ main_pc = "args"
    /\ share_flag = None
    /\ xstate_mutex = None
    /\ gyro_mutex = GyroDataDefault
    /\ accel_mutex = AccelDataDefault
    /\ published = SlotsNew
    /\ lock_owner = [s \in Slots |-> "free"]
    /\ x_pc = "unspawned" /\ x_local = None /\ x_dev = None
    /\ g_pc = "unspawned" /\ g_local = GyroDataDefault /\ g_dev = None
    /\ hist_good = GyroDataDefault
    /\ hist_run = Vec3(0, 0, 0)
    /\ previous_non_error_reading = GyroDataDefault
    /\ broken_time = 0
    /\ a_pc = "unspawned" /\ a_local = AccelDataDefault /\ a_dev = None
    /\ em_xstate = None /\ em_gyro = GyroDataDefault /\ em_accel = AccelDataDefault
    /\ timestamp = 0
    /\ report = None
    /\ cycles = 0
    /\ last_submit = "none"
    /\ ticks = 0
    /\ clock = 0
    /\ last_emit = None
    /\ r_pc = "unregistered"
    /\ r_report = None
    /\ motors = <<0, 0>>

\* ... on a machine that has a worker thread for every task
Init ==
    /\ ProgramInit
    /\ worker_threads = Cardinality(Tasks)
    /\ call = None
    /\ ret = None

(***************************************************************************)
(* Startup: main(), lines 14-138.                                          *)
(***************************************************************************)
\* lines 14-19: --enable-share-button among the arguments or not
ParseArgs ==
    /\ main_pc = "args"
    /\ \E given \in BOOLEAN : share_flag' = Some(given)
    /\ main_pc' = "connect"
    /\ UNCHANGED <<slotVars, lock_owner, xVars, gVars, aVars, emVars, pureVars,
                   rumbleVars, worker_threads>>

\* the order of the startup checks, lines 21-56
NextCheck(stage) ==
    CASE stage = "connect" -> "plugin"
      [] stage = "plugin" -> "wait_ready"
      [] stage = "wait_ready" -> "load_xinput"
      [] stage = "load_xinput" -> "get_gyro"
      [] stage = "get_gyro" -> "get_accel"
      [] stage = "get_accel" -> "spawn"

StartupStages ==
    {"connect", "plugin", "wait_ready", "load_xinput", "get_gyro", "get_accel"}

\* one startup check: Ok goes on, Err prints and returns from main
StartupCheck ==
    /\ main_pc \in StartupStages
    /\ \E ok \in BOOLEAN :
         main_pc' = IF ok THEN NextCheck(main_pc) ELSE "returned"
    /\ UNCHANGED <<share_flag, slotVars, lock_owner, xVars, gVars, aVars, emVars, pureVars,
                   rumbleVars, worker_threads>>

\* the exit status of a process whose main returns (): success
EXIT_SUCCESS == 0

\* the process's exit status: none while main runs; `return` at lines 23, 28, 32,
\* 39, 47 and 54 ends main, of type (), normally
exit_status == IF main_pc = "returned" THEN Some(EXIT_SUCCESS) ELSE None

\* lines 58-138: the slots are created, the three tasks spawned, the rumble
\* callback registered, the interval created
SpawnTasks ==
    /\ main_pc = "spawn"
    /\ main_pc' = "tick"
    /\ x_pc' = "read" /\ g_pc' = "read" /\ a_pc' = "read"
    /\ r_pc' = "wait"
    /\ UNCHANGED <<share_flag, slotVars, lock_owner, x_local, x_dev, g_local, g_dev,
                   previous_non_error_reading, broken_time, hist_good, hist_run,
                   a_local, a_dev, emVars, pureVars, r_report, motors,
                   worker_threads>>

(***************************************************************************)
(* Gamepad acquisition task, lines 64-79.                                  *)
(***************************************************************************)
\* lines 66-72 with every failed poll taken for a gamepad with nothing pressed
xstate_released_on_error(res) == IF IsSome(res) THEN Some(res[1]) ELSE Some(XReleased)

\* lines 66-72: the match on what get_state_ex returned; Err gives None
xstate_of(res) == IF IsSome(res) THEN Some(res[1]) ELSE None

\* lines 66-72: get_state_ex(0), matched
XInputRead(Samples) ==
    /\ x_pc = "read"
    /\ \E res \in {None} \cup {Some(s) : s \in Samples} :
         /\ x_dev' = res
         /\ x_local' = xstate_of(res)
    /\ x_pc' = "lock"
    /\ UNCHANGED <<startVars, slotVars, lock_owner, gVars, aVars, emVars, pureVars,
                   rumbleVars, worker_threads>>

\* line 74: xstate_mutex_clone.lock()
XInputLock ==
    /\ x_pc = "lock"
    /\ lock_owner["xstate"] = "free"
    /\ lock_owner' = [lock_owner EXCEPT !["xstate"] = "xinput"]
    /\ x_pc' = "store"
    /\ UNCHANGED <<startVars, slotVars, x_local, x_dev, gVars, aVars, emVars, pureVars,
                   rumbleVars, worker_threads>>

\* lines 74-77 with the guard alive until the end of the iteration: the lock
\* is still held during the sleep
XInputStoreKeepLock ==
    /\ x_pc = "store"
    /\ xstate_mutex' = x_local
    /\ published' = [published EXCEPT !["xstate"] = x_local]
    /\ x_pc' = "sleep"
    /\ x_local' = None
    /\ x_dev' = None
    /\ UNCHANGED <<startVars, gyro_mutex, accel_mutex, lock_owner, gVars, aVars, emVars,
                   pureVars, rumbleVars, worker_threads>>

\* lines 75-76: *locked_xstate = xstate; the guard is dropped
XInputStore ==
    /\ x_pc = "store"
    /\ xstate_mutex' = x_local
    /\ published' = [published EXCEPT !["xstate"] = x_local]
    /\ lock_owner' = [lock_owner EXCEPT !["xstate"] = "free"]
    /\ x_pc' = "sleep"
    /\ x_local' = None
    /\ x_dev' = None
    /\ UNCHANGED <<startVars, gyro_mutex, accel_mutex, gVars, aVars, emVars, pureVars,
                   rumbleVars, worker_threads>>

\* line 77: sleep(2 ms).await returns
XInputSleep ==
    /\ x_pc = "sleep"
    /\ x_pc' = "read"
    /\ UNCHANGED <<startVars, slotVars, lock_owner, x_local, x_dev, gVars, aVars, emVars,
                   pureVars,
                   rumbleVars, worker_threads>>


(***************************************************************************)
(* Gyro acquisition task, lines 82-111.                                    *)
(***************************************************************************)
\* lines 89-91: `< -124.1`
is_broken(v) == v < FaultThreshold

\* lines 97-99: the value published for one axis of a tick with a broken axis
workarounded(broken, previous_positive, og_value, time) ==
    IF broken
    THEN IF previous_positive
         THEN SynthFloor + inertia * time
         ELSE -SynthFloor - inertia * time
    ELSE og_value

\* lines 89-105: one pass of the fault compensator over the swapped reading `og`,
\* from the state (prev, time); gives new_gyro_data and the next state
fault_compensator(og, prev, time) ==
    IF is_broken(og.x) \/ is_broken(og.y) \/ is_broken(og.z)
    THEN [new_gyro_data |->
              [x |-> workarounded(is_broken(og.x), prev.x > 0, og.x, time + 1),
               y |-> workarounded(is_broken(og.y), prev.y > 0, og.y, time + 1),
               z |-> workarounded(is_broken(og.z), prev.z > 0, og.z, time + 1)],
          previous_non_error_reading |-> prev,
          broken_time |-> time + 1]
    ELSE [new_gyro_data |-> og,
          previous_non_error_reading |-> og,
          broken_time |-> 0]

\* line 87-88: og_gyro_data of a tick, from what read_gyro returned
og_gyro_data(res) == legion_go_gyro_axis_swap(unwrap_or_default(res))

\* history of one axis over a tick that reads `v` on it
NextGood(good, v) == IF is_broken(v) THEN good ELSE v
NextRun(run, v) == IF is_broken(v) THEN run + 1 ELSE 0

\* lines 87-105: read, swap, compensate
GyroRead(Readings, maxBroken) ==
    /\ g_pc = "read"
    /\ \E dev \in {None} \cup {Some(r) : r \in Readings} :
         LET res == read_gyro(dev)
             og == og_gyro_data(res)
             c == fault_compensator(og, previous_non_error_reading, broken_time)
         IN /\ c.broken_time <= maxBroken
            /\ g_dev' = res
            /\ g_local' = c.new_gyro_data
            /\ previous_non_error_reading' = c.previous_non_error_reading
            /\ broken_time' = c.broken_time
            /\ hist_good' = [x |-> NextGood(hist_good.x, og.x),
                             y |-> NextGood(hist_good.y, og.y),
                             z |-> NextGood(hist_good.z, og.z)]
            /\ hist_run' = [x |-> NextRun(hist_run.x, og.x),
                            y |-> NextRun(hist_run.y, og.y),
                            z |-> NextRun(hist_run.z, og.z)]
    /\ g_pc' = "lock"
    /\ UNCHANGED <<startVars, slotVars, lock_owner, xVars, aVars, emVars, pureVars,
                   rumbleVars, worker_threads>>

\* line 107: gyro_mutex_clone.lock()
GyroLock ==
    /\ g_pc = "lock"
    /\ lock_owner["gyro"] = "free"
    /\ lock_owner' = [lock_owner EXCEPT !["gyro"] = "gyro"]
    /\ g_pc' = "store"
    /\ UNCHANGED <<startVars, slotVars, xVars, g_local, g_dev,
                   previous_non_error_reading, broken_time, hist_good, hist_run,
                   aVars, emVars, pureVars,
                   rumbleVars, worker_threads>>

\* lines 108-109: *locked_gyro = new_gyro_data; the guard is dropped
GyroStore ==
    /\ g_pc = "store"
    /\ gyro_mutex' = g_local
    /\ published' = [published EXCEPT !["gyro"] = g_local]
    /\ lock_owner' = [lock_owner EXCEPT !["gyro"] = "free"]
    /\ g_pc' = "read"
    /\ g_local' = GyroDataDefault
    /\ g_dev' = None
    /\ UNCHANGED <<startVars, xstate_mutex, accel_mutex, xVars,
                   previous_non_error_reading, broken_time, hist_good, hist_run,
                   aVars, emVars, pureVars,
                   rumbleVars, worker_threads>>

(***************************************************************************)
(* Accelerometer acquisition task, lines 114-123.                          *)
(***************************************************************************)
\* lines 116-117: read, swap
AccelRead(Readings) ==
    /\ a_pc = "read"
    /\ \E dev \in {None} \cup {Some(r) : r \in Readings} :
         /\ a_dev' = read_accel(dev)
         /\ a_local' = legion_go_accel_axis_swap(unwrap_or_default(read_accel(dev)))
    /\ a_pc' = "lock"
    /\ UNCHANGED <<startVars, slotVars, lock_owner, xVars, gVars, emVars, pureVars,
                   rumbleVars, worker_threads>>

\* line 119: accel_mutex_clone.lock()
AccelLock ==
    /\ a_pc = "lock"
    /\ lock_owner["accel"] = "free"
    /\ lock_owner' = [lock_owner EXCEPT !["accel"] = "accel"]
    /\ a_pc' = "store"
    /\ UNCHANGED <<startVars, slotVars, xVars, gVars, a_local, a_dev, emVars, pureVars,
                   rumbleVars, worker_threads>>

\* lines 120-121: *locked_accel = accel_data; the guard is dropped
AccelStore ==
    /\ a_pc = "store"
    /\ accel_mutex' = a_local
    /\ published' = [published EXCEPT !["accel"] = a_local]
    /\ lock_owner' = [lock_owner EXCEPT !["accel"] = "free"]
    /\ a_pc' = "read"
    /\ a_local' = AccelDataDefault
    /\ a_dev' = None
    /\ UNCHANGED <<startVars, xstate_mutex, gyro_mutex, xVars, gVars, emVars, pureVars,
                   rumbleVars, worker_threads>>

(***************************************************************************)
(* Report synthesis, lines 173-213.                                        *)
(***************************************************************************)
\* line 189 with the flag taken for set whatever the arguments were
share_always == TRUE

\* *ENABLE_DS4_SHARE_BUTTON.get().unwrap_or(&false), line 189
share_enabled == IF IsSome(share_flag) THEN share_flag[1] ELSE FALSE

\* lines 175-209: the branch of put_xinput_state_into_builder for Some(xs)
put_present_state(xs, ds4reb) ==
    LET buttons ==
            [DS4ButtonsNew EXCEPT
               !.triangle = xs.north_button,
               !.cross = xs.south_button,
               !.circle = xs.east_button,
               !.square = xs.west_button,
               !.dpad = map_dpad_directions(xs.arrow_up, xs.arrow_down,
                                            xs.arrow_left, xs.arrow_right),
               !.options = xs.select_button,
               !.shoulder_left = xs.left_shoulder,
               !.shoulder_right = xs.right_shoulder,
               !.thumb_left = xs.left_thumb_button,
               !.thumb_right = xs.right_thumb_button,
               !.trigger_left = xs.left_trigger_bool,
               !.trigger_right = xs.right_trigger_bool,
               !.share = IF share_enabled THEN xs.start_button ELSE FALSE]
        special_buttons ==
            [DS4SpecialButtonsNew EXCEPT
               !.touchpad = xs.start_button,
               !.ps_home = xs.guide_button]
    IN [ds4reb EXCEPT
           !.buttons = buttons,
           !.special = special_buttons,
           !.thumb_lx = normalize_i16_to_u8(xs.left_stick_raw[1], FALSE),
           !.thumb_ly = normalize_i16_to_u8(xs.left_stick_raw[2], TRUE),
           !.thumb_rx = normalize_i16_to_u8(xs.right_stick_raw[1], FALSE),
           !.thumb_ry = normalize_i16_to_u8(xs.right_stick_raw[2], TRUE),
           !.trigger_l = xs.left_trigger,
           !.trigger_r = xs.right_trigger]

\* put_xinput_state_into_builder taking an absent state for an all-released one
put_absent_as_released(xstate, ds4reb) ==
    IF IsSome(xstate)
    THEN put_present_state(xstate[1], ds4reb)
    ELSE put_present_state(XReleased, ds4reb)

\* fn put_xinput_state_into_builder(xstate: Option<XInputState>, ds4reb) -> builder
put_xinput_state_into_builder(xstate, ds4reb) ==
    IF IsSome(xstate)
    THEN put_present_state(xstate[1], ds4reb)
    ELSE ds4reb

\* lines 156-165: the report of one emission cycle
build_report(xstate, gyro_data, accel_data, ts) ==
    [put_xinput_state_into_builder(xstate, DS4ReportExBuilderNew) EXCEPT
        !.gyro_x = convert_umdf_gyro_to_dualshock_x(gyro_data.x),
        !.gyro_y = convert_umdf_gyro_to_dualshock_y(gyro_data.y),
        !.gyro_z = convert_umdf_gyro_to_dualshock_z(gyro_data.z),
        !.accel_x = convert_umdf_accel_to_dualshock(accel_data.x),
        !.accel_y = convert_umdf_accel_to_dualshock(accel_data.y),
        !.accel_z = convert_umdf_accel_to_dualshock(accel_data.z),
        !.timestamp = ts,
        !.status = "BatteryFull"]


(***************************************************************************)
(* Emission loop, lines 140-170.                                           *)
(***************************************************************************)
\* u16::saturating_add in the place of line 169's wrapping_add
saturating_add(a, b) == IF a + b >= U16_MOD THEN U16_MOD - 1 ELSE a + b

\* u16::wrapping_add, line 169
wrapping_add(a, b) == (a + b) % U16_MOD

\* line 141: interval.tick().await returns, `waited` microseconds after the
\* previous return; the loop is then at most maxLag behind the timer's schedule
EmitTick(maxCycles, Waits, maxLag) ==
    /\ main_pc = "tick"
    /\ cycles < maxCycles
    /\ \E waited \in Waits :
         /\ clock + waited <= (ticks + 1) * IntervalMicros + maxLag
         /\ clock' = clock + waited
    /\ ticks' = ticks + 1
    /\ main_pc' = "lock_x"
    /\ UNCHANGED <<share_flag, slotVars, lock_owner, xVars, gVars, aVars, em_xstate,
                   em_gyro, em_accel, timestamp, report, cycles, last_submit, last_emit,
                   pureVars, rumbleVars, worker_threads>>

\* lines 144, 148, 152 with a slot that is read without waiting for its lock
EmitLockUnguarded ==
    /\ \E s \in Slots :
         /\ main_pc = CASE s = "xstate" -> "lock_x"
                        [] s = "gyro" -> "lock_g"
                        [] s = "accel" -> "lock_a"
         /\ lock_owner' = [lock_owner EXCEPT ![s] = "main"]
         /\ main_pc' = CASE s = "xstate" -> "read_x"
                         [] s = "gyro" -> "read_g"
                         [] s = "accel" -> "read_a"
    /\ UNCHANGED <<share_flag, slotVars, xVars, gVars, aVars, emVars, pureVars,
                   rumbleVars, worker_threads>>

\* lines 144, 148, 152: lock() of the slot the loop is at
EmitLock ==
    /\ \E s \in Slots :
         /\ main_pc = CASE s = "xstate" -> "lock_x"
                        [] s = "gyro" -> "lock_g"
                        [] s = "accel" -> "lock_a"
         /\ lock_owner[s] = "free"
         /\ lock_owner' = [lock_owner EXCEPT ![s] = "main"]
         /\ main_pc' = CASE s = "xstate" -> "read_x"
                         [] s = "gyro" -> "read_g"
                         [] s = "accel" -> "read_a"
    /\ UNCHANGED <<share_flag, slotVars, xVars, gVars, aVars, emVars, pureVars,
                   rumbleVars, worker_threads>>

\* lines 145-146: *locked_xstate is copied out; the guard is dropped
EmitReadX ==
    /\ main_pc = "read_x"
    /\ em_xstate' = xstate_mutex
    /\ lock_owner' = [lock_owner EXCEPT !["xstate"] = "free"]
    /\ main_pc' = "lock_g"
    /\ UNCHANGED <<share_flag, slotVars, xVars, gVars, aVars, em_gyro, em_accel,
                   timestamp, report, cycles, last_submit, paceVars, pureVars,
                   rumbleVars, worker_threads>>

\* lines 149-150
EmitReadG ==
    /\ main_pc = "read_g"
    /\ em_gyro' = gyro_mutex
    /\ lock_owner' = [lock_owner EXCEPT !["gyro"] = "free"]
    /\ main_pc' = "lock_a"
    /\ UNCHANGED <<share_flag, slotVars, xVars, gVars, aVars, em_xstate, em_accel,
                   timestamp, report, cycles, last_submit, paceVars, pureVars,
                   rumbleVars, worker_threads>>

\* lines 153-154
EmitReadA ==
    /\ main_pc = "read_a"
    /\ em_accel' = accel_mutex
    /\ lock_owner' = [lock_owner EXCEPT !["accel"] = "free"]
    /\ main_pc' = "build"
    /\ UNCHANGED <<share_flag, slotVars, xVars, gVars, aVars, em_xstate, em_gyro,
                   timestamp, report, cycles, last_submit, paceVars, pureVars,
                   rumbleVars, worker_threads>>

\* lines 156-165: the report is built from the three copies
EmitBuild ==
    /\ main_pc = "build"
    /\ report' = Some(build_report(em_xstate, em_gyro, em_accel, timestamp))
    /\ main_pc' = "submit"
    /\ UNCHANGED <<share_flag, slotVars, lock_owner, xVars, gVars, aVars, em_xstate,
                   em_gyro, em_accel, timestamp, cycles, last_submit, paceVars, pureVars,
                   rumbleVars, worker_threads>>

\* lines 167-170 with a failed update_ex submitted again: the report is kept,
\* the timestamp and the loop stay where they are
EmitSubmitRetry ==
    /\ main_pc = "submit"
    /\ \E ok \in BOOLEAN :
         /\ last_submit' = IF ok THEN "ok" ELSE "err"
         /\ last_emit' = Some([timestamp |-> report[1].timestamp, at |-> clock])
         /\ timestamp' = IF ok THEN wrapping_add(timestamp, TimestampStep) ELSE timestamp
         /\ cycles' = IF ok THEN cycles + 1 ELSE cycles
         /\ report' = IF ok THEN None ELSE report
         /\ em_xstate' = IF ok THEN None ELSE em_xstate
         /\ em_gyro' = IF ok THEN GyroDataDefault ELSE em_gyro
         /\ em_accel' = IF ok THEN AccelDataDefault ELSE em_accel
         /\ main_pc' = IF ok THEN "tick" ELSE "submit"
    /\ UNCHANGED <<share_flag, slotVars, lock_owner, xVars, gVars, aVars, ticks, clock,
                   pureVars, rumbleVars, worker_threads>>

\* lines 167-170: update_ex, its result ignored; the timestamp advances; the
\* iteration's locals go out of scope
EmitSubmit ==
    /\ main_pc = "submit"
    /\ \E ok \in BOOLEAN : last_submit' = IF ok THEN "ok" ELSE "err"
    /\ last_emit' = Some([timestamp |-> report[1].timestamp, at |-> clock])
    /\ timestamp' = wrapping_add(timestamp, TimestampStep)
    /\ cycles' = cycles + 1
    /\ report' = None
    /\ em_xstate' = None /\ em_gyro' = GyroDataDefault /\ em_accel' = AccelDataDefault
    /\ main_pc' = "tick"
    /\ UNCHANGED <<share_flag, slotVars, lock_owner, xVars, gVars, aVars, ticks, clock,
                   pureVars,
                   rumbleVars, worker_threads>>


(***************************************************************************)
(* The program: bounds, inputs, next-state relation.                       *)
(***************************************************************************)
\* the longest glitch run (ticks), and the number of emission cycles, explored
MaxBrokenTime == 1
MaxCycles == 1

\* the device reading that the axis swap turns into (tx, ty, tz)
GyroRaw(tx, ty, tz) == [x |-> -tx, y |-> tz, z |-> ty]

\* gamepad states, gyro readings and accel readings the devices answer with
XInputSamples == {XPressed}
GyroReadings == {GyroRaw(500, -500, 25000), GyroRaw(-2000, -500, 500)}
AccelReadings == {Vec3(45, -120, 38)}

Startup == ParseArgs \/ StartupCheck \/ SpawnTasks
XInputTask == XInputRead(XInputSamples) \/ XInputLock \/ XInputStore \/ XInputSleep
GyroTask == GyroRead(GyroReadings, MaxBrokenTime) \/ GyroLock \/ GyroStore
AccelTask == AccelRead(AccelReadings) \/ AccelLock \/ AccelStore
Emission ==
    \/ EmitTick(MaxCycles, {IntervalMicros}, 0) \/ EmitLock \/ EmitReadX \/ EmitReadG \/ EmitReadA
    \/ EmitBuild \/ EmitSubmit

Next == Startup \/ XInputTask \/ GyroTask \/ AccelTask \/ Emission

Spec == Init /\ [][Next]_vars


(***************************************************************************)
(* The gyro acquisition task alone, with readings that glitch each axis    *)
(* on its own and together (the other loops are not scheduled).            *)
(***************************************************************************)
MaxGlitchTicks == 3

\* per axis: a positive reading, a negative one, a glitched one (-200.0)
AxisReadings == {500, -500, -2000}
GyroGlitchReadings ==
    {GyroRaw(tx, ty, tz) : tx \in AxisReadings, ty \in AxisReadings, tz \in {500, -2000}}

NextGyro ==
    \/ Startup
    \/ GyroRead(GyroGlitchReadings, MaxGlitchTicks) \/ GyroLock \/ GyroStore

SpecGyro == Init /\ [][NextGyro]_vars


(***************************************************************************)
(* Claims about the fault compensator and the acquisition loops.           *)
(***************************************************************************)
Axes == {"x", "y", "z"}
Abs(v) == IF v < 0 THEN -v ELSE v

\* the gyro task has computed a tick and not yet published it
GyroTickComputed == g_pc \in {"lock", "store"}
\* the step of the gyro task that reads and compensates one tick
GyroTickStep == g_pc = "read" /\ g_pc' = "lock"

\* C2: over a run of glitched ticks of an axis whose last unglitched reading was
\* positive, the published values of that axis are positive and strictly
\* growing; the first unglitched reading after the run is published unmodified
\* and the glitch counter is 0 after that tick.
C2_GlitchRun ==
    [][GyroTickStep =>
        \A a \in Axes :
          /\ (hist_run'[a] >= 1 /\ hist_good[a] > 0) =>
                /\ g_local'[a] > 0
                /\ (hist_run'[a] >= 2 => g_local'[a] > gyro_mutex[a])
          /\ (hist_run[a] >= 1 /\ hist_run'[a] = 0) =>
                /\ g_local'[a] = og_gyro_data(g_dev')[a]
                /\ broken_time' = 0]_vars

\* C3: the magnitude published for a glitched axis is the floor plus one step per
\* consecutive glitched tick of that same axis, whatever the other axes do.
C3_PerAxisCounter ==
    GyroTickComputed =>
        \A a \in Axes :
            is_broken(og_gyro_data(g_dev)[a]) =>
                Abs(g_local[a]) = SynthFloor + inertia * hist_run[a]

\* C4: after every tick, each axis that was not glitched in it has its reading
\* recorded as last-known-good, and a synthetic value has the sign of the axis's
\* reading in its most recent unglitched tick.
C4_GoodRecordedPerAxis ==
    GyroTickComputed =>
        \A a \in Axes :
            /\ ~is_broken(og_gyro_data(g_dev)[a]) =>
                  previous_non_error_reading[a] = og_gyro_data(g_dev)[a]
            /\ is_broken(og_gyro_data(g_dev)[a]) =>
                  (g_local[a] > 0 <=> hist_good[a] > 0)

\* C5: after a failed read of the gyroscope or the accelerometer the value about
\* to be published is the one already in the slot (the previous publish).
C5_FailedReadRepublishes ==
    /\ (GyroTickComputed /\ g_dev = None) => g_local = gyro_mutex
    /\ (a_pc \in {"lock", "store"} /\ a_dev = None) => a_local = accel_mutex


(***************************************************************************)
(* The pure conversion functions, each applied to every input of a bounded *)
(* domain: `call` is the function and its arguments, `ret` its result.     *)
(***************************************************************************)
\* angular velocities up to 2500.0 degrees/second, accelerations up to 12.0
GyroInMax == 25000
AccelInMax == 120

PureCalls ==
    [fn : {"normalize_i16_to_u8"}, args : (I16_MIN .. I16_MAX) \X BOOLEAN]
    \cup [fn : {"map_dpad_directions"},
          args : BOOLEAN \X BOOLEAN \X BOOLEAN \X BOOLEAN]
    \cup [fn : {"convert_umdf_gyro_to_dualshock_x", "convert_umdf_gyro_to_dualshock_y",
                "convert_umdf_gyro_to_dualshock_z"},
          args : {<<v>> : v \in -GyroInMax .. GyroInMax}]
    \cup [fn : {"convert_umdf_accel_to_dualshock"},
          args : {<<v>> : v \in -AccelInMax .. AccelInMax}]

InitPure ==
    /\ ProgramInit
    /\ worker_threads = Cardinality(Tasks)
    /\ call \in {Some(c) : c \in PureCalls}
    /\ ret = None

Pending(name) == IsSome(call) /\ call[1].fn = name /\ ret = None
ProgramVarsButRumble ==
    <<startVars, slotVars, lock_owner, worker_threads, xVars, gVars, aVars, emVars>>
ProgramVars == <<ProgramVarsButRumble, rumbleVars>>

CallNormalize ==
    /\ Pending("normalize_i16_to_u8")
    /\ ret' = Some(normalize_i16_to_u8(call[1].args[1], call[1].args[2]))
    /\ UNCHANGED <<ProgramVars, call>>

CallMapDpad ==
    /\ Pending("map_dpad_directions")
    /\ ret' = Some(map_dpad_directions(call[1].args[1], call[1].args[2],
                                       call[1].args[3], call[1].args[4]))
    /\ UNCHANGED <<ProgramVars, call>>

CallGyroX ==
    /\ Pending("convert_umdf_gyro_to_dualshock_x")
    /\ ret' = Some(convert_umdf_gyro_to_dualshock_x(call[1].args[1]))
    /\ UNCHANGED <<ProgramVars, call>>

CallGyroY ==
    /\ Pending("convert_umdf_gyro_to_dualshock_y")
    /\ ret' = Some(convert_umdf_gyro_to_dualshock_y(call[1].args[1]))
    /\ UNCHANGED <<ProgramVars, call>>

CallGyroZ ==
    /\ Pending("convert_umdf_gyro_to_dualshock_z")
    /\ ret' = Some(convert_umdf_gyro_to_dualshock_z(call[1].args[1]))
    /\ UNCHANGED <<ProgramVars, call>>

CallAccel ==
    /\ Pending("convert_umdf_accel_to_dualshock")
    /\ ret' = Some(convert_umdf_accel_to_dualshock(call[1].args[1]))
    /\ UNCHANGED <<ProgramVars, call>>

NextPure ==
    CallNormalize \/ CallMapDpad \/ CallGyroX \/ CallGyroY \/ CallGyroZ \/ CallAccel

SpecPure == InitPure /\ [][NextPure]_vars

\* `name` has returned: its arguments and its result
Returned(name) == IsSome(call) /\ call[1].fn = name /\ IsSome(ret)


(***************************************************************************)
(* Claims about the pure functions.                                        *)
(***************************************************************************)
\* the compass point of a vertical and a horizontal deflection in {-1, 0, 1}
CompassPoint(v, h) ==
    CASE v = 1 /\ h = 0 -> "North"
      [] v = 1 /\ h = 1 -> "NorthEast"
      [] v = 0 /\ h = 1 -> "East"
      [] v = -1 /\ h = 1 -> "SouthEast"
      [] v = -1 /\ h = 0 -> "South"
      [] v = -1 /\ h = -1 -> "SouthWest"
      [] v = 0 /\ h = -1 -> "West"
      [] v = 1 /\ h = -1 -> "NorthWest"
      [] v = 0 /\ h = 0 -> "None"
Deflection(pos, neg) == (IF pos THEN 1 ELSE 0) - (IF neg THEN 1 ELSE 0)

\* C7: map_dpad_directions gives the compass point of a non-contradictory
\* combination, and None for all-false and for every combination holding
\* up+down or left+right.
C7_DpadTruthTable ==
    Returned("map_dpad_directions") =>
        LET up == call[1].args[1]
            down == call[1].args[2]
            left == call[1].args[3]
            right == call[1].args[4]
        IN ret[1] = IF (up /\ down) \/ (left /\ right)
                    THEN "None"
                    ELSE CompassPoint(Deflection(up, down), Deflection(right, left))

C7_Witness ==
    /\ Returned("map_dpad_directions")
    /\ call[1].args = <<TRUE, FALSE, FALSE, TRUE>>
    /\ ret[1] = "NorthEast"

\* C8: normalize_i16_to_u8 lands in 0..255; without inversion it is monotonic
\* with -32768 -> 0, 0 -> 128 (within 1), 32767 -> 255; with inversion the
\* result is 255 minus the non-inverted one: 255, 127, 0 for the same inputs.
C8_Normalize ==
    Returned("normalize_i16_to_u8") =>
        LET v == call[1].args[1]
            flip == call[1].args[2]
            r == ret[1]
        IN /\ r \in 0 .. U8_MAX
           /\ ~flip =>
                /\ (v = I16_MIN => r = 0)
                /\ (v = 0 => r \in 127 .. 129)
                /\ (v = I16_MAX => r = 255)
                /\ (v < I16_MAX => r <= normalize_i16_to_u8(v + 1, FALSE))
           /\ flip =>
                /\ r = 255 - normalize_i16_to_u8(v, FALSE)
                /\ (v = I16_MIN => r = 255)
                /\ (v = 0 => r = 127)
                /\ (v = I16_MAX => r = 0)

C8_Witness ==
    /\ Returned("normalize_i16_to_u8")
    /\ call[1].args = <<0, TRUE>>
    /\ ret[1] = 127

\* the gyro scaling of the axis the call names
GyroScale(name, v) ==
    CASE name = "convert_umdf_gyro_to_dualshock_x" -> convert_umdf_gyro_to_dualshock_x(v)
      [] name = "convert_umdf_gyro_to_dualshock_y" -> convert_umdf_gyro_to_dualshock_y(v)
      [] name = "convert_umdf_gyro_to_dualshock_z" -> convert_umdf_gyro_to_dualshock_z(v)
GyroScaleNames ==
    {"convert_umdf_gyro_to_dualshock_x", "convert_umdf_gyro_to_dualshock_y",
     "convert_umdf_gyro_to_dualshock_z"}

\* C9: the gyro scaling of each axis lands in -32768..32767, is monotonic
\* non-decreasing, and outside [-2000, 2000] degrees/second gives what it gives
\* for the input clamped to that range.
C9_GyroScale ==
    \A name \in GyroScaleNames :
        Returned(name) =>
            LET v == call[1].args[1]
                r == ret[1]
            IN /\ r \in I16_MIN .. I16_MAX
               /\ (v < GyroInMax => r <= GyroScale(name, v + 1))
               /\ (v > MAX_DPS => r = GyroScale(name, MAX_DPS))
               /\ (v < -MAX_DPS => r = GyroScale(name, -MAX_DPS))
               /\ (v = MAX_DPS => r = I16_MAX)
               /\ (v = -MAX_DPS => r = -I16_MAX)

C9_Witness ==
    /\ Returned("convert_umdf_gyro_to_dualshock_x")
    /\ call[1].args[1] > MAX_DPS
    /\ ret[1] = I16_MAX

\* C10: for every input within the declared maximum (9.8) the accel scaling
\* returns the nearest integer to input / 9.8 * 84626, never cut off at the
\* 16-bit boundary.
C10_AccelLinear ==
    Returned("convert_umdf_accel_to_dualshock") =>
        (Abs(call[1].args[1]) <= umdf_max =>
            ret[1] = RoundDiv(call[1].args[1] * SCALE_FACTOR, umdf_max))


(***************************************************************************)
(* The emission loop over every combination of published slot values.      *)
(* The initial states are the program after startup with the acquisition   *)
(* tasks having run before the first timer tick: the gamepad slot holds    *)
(* the result of some read, the accel slot the result of some read, and    *)
(* the gyro task has published a good reading followed by a glitch run of  *)
(* any length up to MaxGlitchRun (its state is computed by running the     *)
(* task's own step over that sequence of readings).  The run must pass     *)
(* 188 ticks for the synthetic value to exceed MAX_DPS.                    *)
(***************************************************************************)
MaxGlitchRun == 190
MaxReportCycles == 1

\* the gyro task's state and slot before its first tick (lines 59, 84-85)
GyroTaskStart ==
    [gyro_mutex |-> GyroDataDefault,
     previous_non_error_reading |-> GyroDataDefault,
     broken_time |-> 0,
     hist_good |-> GyroDataDefault,
     hist_run |-> Vec3(0, 0, 0)]

\* the gyro task's state and slot after one more tick (GyroRead, GyroLock,
\* GyroStore) in which read_gyro returns `answer`
GyroTaskTick(before, answer) ==
    LET og == og_gyro_data(answer)
        c == fault_compensator(og, before.previous_non_error_reading,
                               before.broken_time)
    IN [gyro_mutex |-> c.new_gyro_data,
        previous_non_error_reading |-> c.previous_non_error_reading,
        broken_time |-> c.broken_time,
        hist_good |-> [x |-> NextGood(before.hist_good.x, og.x),
                       y |-> NextGood(before.hist_good.y, og.y),
                       z |-> NextGood(before.hist_good.z, og.z)],
        hist_run |-> [x |-> NextRun(before.hist_run.x, og.x),
                      y |-> NextRun(before.hist_run.y, og.y),
                      z |-> NextRun(before.hist_run.z, og.z)]]

\* ... after n more ticks that all return `answer`
RECURSIVE GyroTaskTicks(_, _, _)
GyroTaskTicks(before, answer, n) ==
    IF n = 0 THEN before
    ELSE IF n = 1 THEN GyroTaskTick(before, answer)
    ELSE LET half == GyroTaskTicks(before, answer, n \div 2)
         IN IF half.broken_time >= 0
            THEN GyroTaskTicks(half, answer, n - (n \div 2))
            ELSE half

\* one good reading, then n times the same glitched reading
GyroTaskAfterRun(good, glitched, n) ==
    GyroTaskTicks(GyroTaskTick(GyroTaskStart, Some(good)), Some(glitched), n)

ReportGoodReadings == {GyroRaw(500, -500, 25000), GyroRaw(-500, 500, -25000)}
ReportGlitchedReadings == {GyroRaw(-2000, -2000, 300), GyroRaw(-2000, 500, -2000)}
ReportAccelReadings == {Vec3(0, 0, -10), Vec3(45, -120, 38), Vec3(-98, 37, -38)}
ReportXInputSamples == {XReleased, XPressed}

InitReport ==
    /\ \E good \in ReportGoodReadings, glitched \in ReportGlitchedReadings,
          n \in 0 .. MaxGlitchRun :
         LET after == GyroTaskAfterRun(good, glitched, n)
         IN /\ gyro_mutex = after.gyro_mutex
            /\ previous_non_error_reading = after.previous_non_error_reading
            /\ broken_time = after.broken_time
            /\ hist_good = after.hist_good
            /\ hist_run = after.hist_run
    /\ main_pc = "tick"
    /\ share_flag \in {Some(TRUE), Some(FALSE)}
    /\ xstate_mutex \in {None} \cup {Some(xs) : xs \in ReportXInputSamples}
    /\ accel_mutex \in
         {legion_go_accel_axis_swap(unwrap_or_default(read_accel(dev))) :
             dev \in {None} \cup {Some(r) : r \in ReportAccelReadings}}
    /\ published = [xstate |-> xstate_mutex, gyro |-> gyro_mutex, accel |-> accel_mutex]
    /\ lock_owner = [s \in Slots |-> "free"]
    /\ worker_threads = Cardinality(Tasks)
    /\ x_pc = "read" /\ x_local = None /\ x_dev = None
    /\ g_pc = "read" /\ g_local = GyroDataDefault /\ g_dev = None
    /\ a_pc = "read" /\ a_local = AccelDataDefault /\ a_dev = None
    /\ em_xstate = None /\ em_gyro = GyroDataDefault /\ em_accel = AccelDataDefault
    /\ timestamp = 0
    /\ report = None
    /\ cycles = 0
    /\ last_submit = "none"
    /\ ticks = 0
    /\ clock = 0
    /\ last_emit = None
    /\ r_pc = "wait"
    /\ r_report = None
    /\ motors = <<0, 0>>
    /\ call = None
    /\ ret = None

NextReport ==
    \/ EmitTick(MaxReportCycles, {IntervalMicros}, 0) \/ EmitLock \/ EmitReadX \/ EmitReadG \/ EmitReadA
    \/ EmitBuild \/ EmitSubmit

SpecReport == InitReport /\ [][NextReport]_vars


(***************************************************************************)
(* Claims about the reports of the emission loop.                          *)
(***************************************************************************)
\* the scaled values before any clamp or cast: what the conversion aims at
IdealGyro(v) == RoundDiv(v * I16_MAX, MAX_DPS)
IdealAccel(v) == RoundDiv(Clamp(v, -umdf_max, umdf_max) * SCALE_FACTOR, umdf_max)

\* `field` is `ideal` where that fits a signed 16-bit field, and otherwise sits
\* at the end of the domain on ideal's side: nothing wrapped around
NotWrapped(field, ideal) ==
    /\ field \in I16_MIN .. I16_MAX
    /\ (ideal \in I16_MIN .. I16_MAX => field = ideal)
    /\ (ideal > I16_MAX => field = I16_MAX)
    /\ (ideal < I16_MIN => field \in {I16_MIN, -I16_MAX})

\* C1: in every report built from the copies of the three slots, the gyro and
\* accel fields lie in -32768..32767 and are the scaled sample, pinned to the
\* end of the domain where it does not fit (never wrapped); the stick and
\* trigger bytes lie in 0..255; the timestamp is a 16-bit value.
C1_ReportFieldsInDomain ==
    IsSome(report) =>
        LET r == report[1]
        IN /\ NotWrapped(r.gyro_x, IdealGyro(em_gyro.x))
           /\ NotWrapped(r.gyro_y, IdealGyro(em_gyro.y))
           /\ NotWrapped(r.gyro_z, IdealGyro(em_gyro.z))
           /\ NotWrapped(r.accel_x, IdealAccel(em_accel.x))
           /\ NotWrapped(r.accel_y, IdealAccel(em_accel.y))
           /\ NotWrapped(r.accel_z, IdealAccel(em_accel.z))
           /\ \A f \in {"thumb_lx", "thumb_ly", "thumb_rx", "thumb_ry",
                        "trigger_l", "trigger_r"} : r[f] \in 0 .. U8_MAX
           /\ r.timestamp \in 0 .. U16_MOD - 1

\* a report built after a glitch run long enough for the synthetic value to
\* pass MAX_DPS, from an accel sample beyond the 16-bit range and a present
\* gamepad state with a stick at its extreme
C1_Witness ==
    /\ IsSome(report)
    /\ hist_run.x >= 188
    /\ em_gyro.x > MAX_DPS
    /\ em_gyro.x = SynthFloor + inertia * broken_time
    /\ report[1].gyro_x = I16_MAX
    /\ IdealAccel(em_accel.x) > I16_MAX
    /\ report[1].accel_x = I16_MAX
    /\ IsSome(em_xstate)
    /\ report[1].thumb_lx = U8_MAX

\* C6: a cycle that read the gamepad slot as absent builds its report all the
\* same: no button, no special button, dpad None, sticks at the rest byte,
\* triggers 0, and the gyro and accel fields scaled from the motion samples
\* the cycle read.
C6_AbsentGamepadReport ==
    (IsSome(report) /\ em_xstate = None) =>
        LET r == report[1]
        IN /\ r.buttons.dpad = "None"
           /\ \A b \in DOMAIN r.buttons \ {"dpad"} : r.buttons[b] = FALSE
           /\ \A b \in DOMAIN r.special : r.special[b] = FALSE
           /\ \A f \in {"thumb_lx", "thumb_ly", "thumb_rx", "thumb_ry"} :
                 r[f] = StickRest
           /\ r.trigger_l = 0 /\ r.trigger_r = 0
           /\ r.gyro_x = convert_umdf_gyro_to_dualshock_x(em_gyro.x)
           /\ r.gyro_y = convert_umdf_gyro_to_dualshock_y(em_gyro.y)
           /\ r.gyro_z = convert_umdf_gyro_to_dualshock_z(em_gyro.z)
           /\ r.accel_x = convert_umdf_accel_to_dualshock(em_accel.x)
           /\ r.accel_y = convert_umdf_accel_to_dualshock(em_accel.y)
           /\ r.accel_z = convert_umdf_accel_to_dualshock(em_accel.z)

\* the gamepad task has published, the slot was read absent, and the report
\* carries motion: nonzero gyro and accel fields
C6_Witness ==
    /\ IsSome(report)
    /\ em_xstate = None
    /\ x_pc = "sleep"
    /\ report[1].gyro_x # 0
    /\ report[1].accel_x # 0
    /\ report[1].thumb_ly = StickRest


(***************************************************************************)
(* The state main() is in when it enters the emission loop (line 140):     *)
(* startup passed, the three tasks spawned and the rumble callback         *)
(* registered, the gamepad slot holding `xs`, the gyro task having run to  *)
(* `gyro_task` (a value of GyroTaskTick), the accel slot holding `accel`.  *)
(***************************************************************************)
AfterStartup(flag, xs, gyro_task, accel) ==
    /\ main_pc = "tick"
    /\ share_flag = Some(flag)
    /\ xstate_mutex = xs
    /\ gyro_mutex = gyro_task.gyro_mutex
    /\ accel_mutex = accel
    /\ published = [xstate |-> xs, gyro |-> gyro_task.gyro_mutex, accel |-> accel]
    /\ lock_owner = [s \in Slots |-> "free"]
    /\ worker_threads = Cardinality(Tasks)
    /\ x_pc = "read" /\ x_local = None /\ x_dev = None
    /\ g_pc = "read" /\ g_local = GyroDataDefault /\ g_dev = None
    /\ previous_non_error_reading = gyro_task.previous_non_error_reading
    /\ broken_time = gyro_task.broken_time
    /\ hist_good = gyro_task.hist_good
    /\ hist_run = gyro_task.hist_run
    /\ a_pc = "read" /\ a_local = AccelDataDefault /\ a_dev = None
    /\ em_xstate = None /\ em_gyro = GyroDataDefault /\ em_accel = AccelDataDefault
    /\ timestamp = 0
    /\ report = None
    /\ cycles = 0
    /\ last_submit = "none"
    /\ ticks = 0
    /\ clock = 0
    /\ last_emit = None
    /\ r_pc = "wait"
    /\ r_report = None
    /\ motors = <<0, 0>>
    /\ call = None
    /\ ret = None

(***************************************************************************)
(* The emission loop over enough cycles for the u16 timestamp to pass      *)
(* 65535 (349 cycles), with ticks that return on time or one period late.  *)
(***************************************************************************)
MaxTimestampCycles == 350
MaxLagMicros == 2500

\* interval.tick() returns one period after the previous return, or two
TickWaits == {IntervalMicros, 2 * IntervalMicros}

InitTimestamp ==
    AfterStartup(FALSE, Some(XPressed),
                 GyroTaskTick(GyroTaskStart, Some(GyroRaw(500, -500, 25000))),
                 legion_go_accel_axis_swap(Vec3(45, -120, 38)))

NextTimestamp ==
    \/ EmitTick(MaxTimestampCycles, TickWaits, MaxLagMicros)
    \/ EmitLock \/ EmitReadX \/ EmitReadG \/ EmitReadA \/ EmitBuild \/ EmitSubmit

SpecTimestamp == InitTimestamp /\ [][NextTimestamp]_vars

\* timestamp units for `micros` of real time at 188 units per 1.25 ms
ElapsedUnits(micros) == RoundDiv(micros * TimestampStep, IntervalMicros) % U16_MOD

\* the difference of two u16 timestamps, modulo 65536
TimestampDiff(later, earlier) == (later - earlier + U16_MOD) % U16_MOD

\* C11: the timestamp of a report about to be submitted exceeds (modulo 65536)
\* the timestamp of the previous report by the real time elapsed between the
\* two emissions at 188 units per 1.25 ms: 376 when 2.5 ms have passed.
C11_TimestampTracksElapsed ==
    (main_pc = "submit" /\ IsSome(last_emit)) =>
        TimestampDiff(report[1].timestamp, last_emit[1].timestamp)
            = ElapsedUnits(clock - last_emit[1].at)

\* C12: one report per return of tick(); the k-th report (k from 0) carries
\* (188 * k) mod 65536, the first one 0, also past the 16-bit boundary, where
\* the loop goes on as before.
C12_FixedDeltaTimestamp ==
    /\ cycles = IF main_pc = "tick" THEN ticks ELSE ticks - 1
    /\ timestamp = (TimestampStep * cycles) % U16_MOD
    /\ IsSome(report) => report[1].timestamp = (TimestampStep * cycles) % U16_MOD
    /\ IsSome(last_emit) =>
          last_emit[1].timestamp = (TimestampStep * (cycles - 1)) % U16_MOD
    /\ (cycles = 0 /\ IsSome(report)) => report[1].timestamp = 0
    /\ (main_pc = "tick" /\ cycles < MaxTimestampCycles) =>
          ENABLED EmitTick(MaxTimestampCycles, TickWaits, MaxLagMicros)

\* the report after the wrap: the previous one carried 65424, this one 76, and
\* the loop was late by then
C12_Witness ==
    /\ main_pc = "submit"
    /\ cycles = 349
    /\ TimestampStep * cycles > U16_MOD
    /\ report[1].timestamp = 76
    /\ last_emit[1].timestamp = 65424
    /\ clock > ticks * IntervalMicros


(***************************************************************************)
(* Startup, the gamepad acquisition task and the emission loop, with a     *)
(* gamepad that answers pressed, released or not at all (the gyro and      *)
(* accel tasks are not scheduled).                                         *)
(***************************************************************************)
MaxGamepadCycles == 2

GamepadSamples == {XReleased, XPressed}

NextGamepad ==
    \/ Startup
    \/ XInputRead(GamepadSamples) \/ XInputLock \/ XInputStore \/ XInputSleep
    \/ EmitTick(MaxGamepadCycles, {IntervalMicros}, 0)
    \/ EmitLock \/ EmitReadX \/ EmitReadG \/ EmitReadA \/ EmitBuild \/ EmitSubmit

SpecGamepad == Init /\ [][NextGamepad]_vars

\* the step of the emission loop in which update_ex returns an error
SubmitFails == main_pc = "submit" /\ emVars' # emVars /\ last_submit' = "err"

\* C13: a failed update_ex drops its report (nothing is kept to submit again),
\* advances the timestamp by 188 as a successful one does, changes no slot, no
\* lock and no state of the acquisition tasks, and leaves the loop at its next
\* tick; the cycle after it copies the gamepad slot's latest publish and builds
\* its report from the copies it took and the advanced timestamp.
C13_FailedSubmitDropped ==
    [][/\ SubmitFails =>
            /\ report' = None
            /\ main_pc' = "tick"
            /\ timestamp' = wrapping_add(timestamp, TimestampStep)
            /\ cycles' = cycles + 1
            /\ UNCHANGED <<slotVars, lock_owner, xVars, gVars, aVars>>
       /\ (main_pc = "tick" /\ last_submit = "err" /\ cycles < MaxGamepadCycles) =>
            ENABLED EmitTick(MaxGamepadCycles, {IntervalMicros}, 0)
       /\ (last_submit = "err" /\ main_pc = "read_x" /\ main_pc' = "lock_g") =>
            em_xstate' = published["xstate"]
       /\ (last_submit = "err" /\ main_pc = "build" /\ main_pc' = "submit") =>
            /\ report' = Some(build_report(em_xstate, em_gyro, em_accel, timestamp))
            /\ report'[1].timestamp
                  = wrapping_add(last_emit[1].timestamp, TimestampStep)]_vars

\* the first update_ex failed; the second cycle has copied a gamepad state the
\* task published and built from it the report it is about to submit
C13_Witness ==
    /\ main_pc = "submit"
    /\ last_submit = "err"
    /\ cycles = 1
    /\ report[1].timestamp = TimestampStep
    /\ em_xstate = Some(XPressed)
    /\ report[1].buttons.triangle

\* C16: with the flag disabled every report has the share bit unset; with it
\* enabled the share bit of a report built from a present gamepad state is that
\* state's start button; the flag is set before any report is built and, once
\* set, keeps its value.
C16_ShareButtonFlag ==
    [][/\ IsSome(report') =>
            /\ IsSome(share_flag')
            /\ ~share_flag'[1] => ~report'[1].buttons.share
            /\ (share_flag'[1] /\ IsSome(em_xstate')) =>
                  report'[1].buttons.share = em_xstate'[1].start_button
       /\ IsSome(share_flag) => share_flag' = share_flag
       /\ (share_flag = None) => (cycles' = 0 /\ report' = None)]_vars

\* the flag is disabled, the start button is pressed and the report's share bit
\* is unset while its touchpad bit (the start button as well) is set
C16_Witness ==
    /\ share_flag = Some(FALSE)
    /\ IsSome(report)
    /\ IsSome(em_xstate)
    /\ em_xstate[1].start_button
    /\ ~report[1].buttons.share
    /\ report[1].special.touchpad

\* C18: the gamepad task publishes None after a failed get_state_ex and the
\* state read after a successful one (None is no state with everything
\* released); having published it sleeps, polls again only after that sleep,
\* and always has a next step.
C18_GamepadLoop ==
    [][/\ (x_pc = "store" /\ x_pc' # "store") =>
            /\ x_pc' = "sleep"
            /\ x_dev = None => (xstate_mutex' = None /\ xstate_mutex' # Some(XReleased))
            /\ IsSome(x_dev) => xstate_mutex' = Some(x_dev[1])
       /\ (x_pc # "read" /\ x_pc' = "read") => x_pc \in {"sleep", "unspawned"}
       /\ (x_pc \in {"read", "sleep"}) =>
            ENABLED (XInputRead(GamepadSamples) \/ XInputSleep)
       /\ (x_pc = "lock" /\ lock_owner["xstate"] = "free") => ENABLED XInputLock
       /\ (x_pc = "store") => ENABLED XInputStore]_vars

\* a failed poll has published None over a state the emission loop had copied,
\* and the next poll has succeeded
C18_Witness ==
    /\ x_pc = "lock"
    /\ x_dev = Some(XPressed)
    /\ xstate_mutex = None
    /\ em_xstate = Some(XReleased)


(***************************************************************************)
(* The tasks on the runtime's worker threads.  #[tokio::main] builds the   *)
(* multi-thread runtime with one worker thread per core of the machine;    *)
(* a spawned task is queued, runs when a worker takes it, and gives the    *)
(* worker back only at an .await that is not ready.  The gamepad task has  *)
(* one (the sleep of line 77); the loops of the gyro and accel tasks have  *)
(* none.  main's own future (the emission loop) runs on the thread that    *)
(* called block_on, not on a worker.                                       *)
(***************************************************************************)
MaxWorkerThreads == 3
MaxWorkerCycles == 1

\* the position of a spawned task
TaskPc(t) ==
    CASE t = "xinput" -> x_pc
      [] t = "gyro" -> g_pc
      [] t = "accel" -> a_pc

\* the tasks that hold a worker thread
Running == {t \in Tasks : TaskPc(t) \in {"read", "lock", "store"}}

\* the tasks whose loop has no .await (lines 86-110 and 115-122)
NeverYields == {"gyro", "accel"}

\* main() entered on a machine with any number of cores
InitWorkers ==
    /\ ProgramInit
    /\ worker_threads \in 1 .. MaxWorkerThreads
    /\ call = None
    /\ ret = None

\* lines 58-138 on the runtime: tokio::spawn queues each task
SpawnQueued ==
    /\ main_pc = "spawn"
    /\ main_pc' = "tick"
    /\ x_pc' = "queued" /\ g_pc' = "queued" /\ a_pc' = "queued"
    /\ r_pc' = "wait"
    /\ UNCHANGED <<share_flag, slotVars, lock_owner, x_local, x_dev, g_local, g_dev,
                   previous_non_error_reading, broken_time, hist_good, hist_run,
                   a_local, a_dev, emVars, pureVars, r_report, motors,
                   worker_threads>>

\* a worker thread that runs no task takes a queued one
Dispatch ==
    /\ Cardinality(Running) < worker_threads
    /\ \E t \in Tasks :
         /\ TaskPc(t) = "queued"
         /\ x_pc' = IF t = "xinput" THEN "read" ELSE x_pc
         /\ g_pc' = IF t = "gyro" THEN "read" ELSE g_pc
         /\ a_pc' = IF t = "accel" THEN "read" ELSE a_pc
    /\ UNCHANGED <<startVars, slotVars, lock_owner, x_local, x_dev, g_local, g_dev,
                   previous_non_error_reading, broken_time, hist_good, hist_run,
                   a_local, a_dev, emVars, pureVars, rumbleVars, worker_threads>>

\* line 77 on the runtime: the sleep is over and the gamepad task is queued again
\* (it gave its worker back when it started to sleep)
XInputWake ==
    /\ x_pc = "sleep"
    /\ x_pc' = "queued"
    /\ UNCHANGED <<startVars, slotVars, lock_owner, x_local, x_dev, gVars, aVars, emVars,
                   pureVars, rumbleVars, worker_threads>>

NextWorkers ==
    \/ ParseArgs \/ StartupCheck \/ SpawnQueued \/ Dispatch
    \/ XInputRead({XPressed}) \/ XInputLock \/ XInputStore \/ XInputWake
    \/ GyroRead({GyroRaw(500, -500, 25000)}, 0) \/ GyroLock \/ GyroStore
    \/ AccelRead({Vec3(45, -120, 38)}) \/ AccelLock \/ AccelStore
    \/ EmitTick(MaxWorkerCycles, {IntervalMicros}, 0)
    \/ EmitLock \/ EmitReadX \/ EmitReadG \/ EmitReadA \/ EmitBuild \/ EmitSubmit

SpecWorkers == InitWorkers /\ [][NextWorkers]_vars

\* C14: a task that is ready to run is never kept off the worker threads by
\* tasks that do not yield: when a task is queued, some worker thread is free
\* or runs a task that will give it back.
C14_SourceIsolation ==
    \A t \in Tasks :
        TaskPc(t) = "queued" =>
            Cardinality(Running \cap NeverYields) < worker_threads


(***************************************************************************)
(* The rumble notification callback, lines 125-133: the thread spawn_thread*)
(* starts waits for a notification of the sink, calls the closure with it, *)
(* and waits again when the closure has returned.                          *)
(***************************************************************************)
\* the factor from a motor byte to an XInput motor speed, line 127
MotorScale == 257

\* lines 126-127: (lms, rms) of a notification, in u16
motor_speeds(notification) ==
    <<(notification.large_motor * MotorScale) % U16_MOD,
      (notification.small_motor * MotorScale) % U16_MOD>>

\* the motor bytes the sink asks for
RumbleReports ==
    [large_motor : {0, 1, 128, U8_MAX}, small_motor : {0, U8_MAX}]

\* the sink requests rumble: the closure is entered with the notification
RumbleNotify ==
    /\ r_pc = "wait"
    /\ \E notification \in RumbleReports : r_report' = Some(notification)
    /\ r_pc' = "set_state"
    /\ UNCHANGED <<ProgramVarsButRumble, motors, pureVars>>

\* line 128: set_state(0, lms, rms); Ok ends the closure, Err goes to line 129
RumbleSetState ==
    /\ r_pc = "set_state"
    /\ \E ok \in BOOLEAN :
         /\ motors' = IF ok THEN motor_speeds(r_report[1]) ELSE motors
         /\ r_pc' = IF ok THEN "wait" ELSE "backoff"
    /\ UNCHANGED <<ProgramVarsButRumble, r_report, pureVars>>

\* lines 129-131: the message is printed, the thread has slept 333 ms, the
\* closure returns
RumbleBackoff ==
    /\ r_pc = "backoff"
    /\ r_pc' = "wait"
    /\ UNCHANGED <<ProgramVarsButRumble, r_report, motors, pureVars>>

InitRumble ==
    AfterStartup(FALSE, None, GyroTaskStart, AccelDataDefault)

NextRumble == RumbleNotify \/ RumbleSetState \/ RumbleBackoff

SpecRumble == InitRumble /\ [][NextRumble]_vars

\* C15: the callback is back waiting for a notification only when the motor
\* speeds of the latest request have been written: a failed set_state is
\* followed, after the backoff, by another set_state of the same speeds.
C15_RumbleRetried ==
    (r_pc = "wait" /\ IsSome(r_report)) => motors = motor_speeds(r_report[1])


(***************************************************************************)
(* Claims about startup and about the locks of the whole program.          *)
(***************************************************************************)
\* C17: when a startup check fails the process has exited with a status other
\* than 0, no acquisition task was started and no report was built or submitted.
C17_FatalStartupExit ==
    main_pc = "returned" =>
        /\ IsSome(exit_status)
        /\ exit_status[1] # 0
        /\ \A t \in Tasks : TaskPc(t) = "unspawned"
        /\ cycles = 0
        /\ report = None


\* the loops that take slot locks
Lockers == Tasks \cup {"main"}

\* where loop `who` is while it holds the lock of slot s ("none": it never does)
HoldingPc(who, s) ==
    CASE who = "main" /\ s = "xstate" -> "read_x"
      [] who = "main" /\ s = "gyro" -> "read_g"
      [] who = "main" /\ s = "accel" -> "read_a"
      [] who = "xinput" /\ s = "xstate" -> "store"
      [] who = "gyro" /\ s = "gyro" -> "store"
      [] who = "accel" /\ s = "accel" -> "store"
      [] OTHER -> "none"

LoopPc(who) == IF who = "main" THEN main_pc ELSE TaskPc(who)

\* where the emission loop is while it waits for the lock of slot s
WaitingPc(s) ==
    CASE s = "xstate" -> "lock_x"
      [] s = "gyro" -> "lock_g"
      [] s = "accel" -> "lock_a"

\* C19: a loop holds a slot lock only in the one step that copies the slot in
\* or out (never in a device read, in update_ex, in a sleep or at the timer),
\* and never two locks; the holder's releasing step is always enabled, so the
\* emission loop, when it is not at its timer, is either enabled or waits for
\* one such step of one acquisition task, and no set of loops waits in a cycle.
C19_LockDiscipline ==
    /\ \A s \in Slots :
          lock_owner[s] # "free" =>
              /\ lock_owner[s] \in Lockers
              /\ LoopPc(lock_owner[s]) = HoldingPc(lock_owner[s], s)
    /\ \A who \in Lockers : Cardinality({s \in Slots : lock_owner[s] = who}) <= 1
    /\ (x_pc \in {"read", "sleep"}) => \A s \in Slots : lock_owner[s] # "xinput"
    /\ (g_pc = "read") => \A s \in Slots : lock_owner[s] # "gyro"
    /\ (a_pc = "read") => \A s \in Slots : lock_owner[s] # "accel"
    /\ (main_pc \in {"tick", "build", "submit"}) =>
          \A s \in Slots : lock_owner[s] # "main"
    /\ (lock_owner["xstate"] = "xinput") => ENABLED XInputStore
    /\ (lock_owner["gyro"] = "gyro") => ENABLED GyroStore
    /\ (lock_owner["accel"] = "accel") => ENABLED AccelStore
    /\ (lock_owner["xstate"] = "main") => ENABLED EmitReadX
    /\ (lock_owner["gyro"] = "main") => ENABLED EmitReadG
    /\ (lock_owner["accel"] = "main") => ENABLED EmitReadA
    /\ \A s \in Slots :
          main_pc = WaitingPc(s) =>
              \/ lock_owner[s] = "free" /\ ENABLED EmitLock
              \/ lock_owner[s] \in Tasks /\ TaskPc(lock_owner[s]) = "store"
    /\ (main_pc = "submit") => ENABLED EmitSubmit

\* the emission loop waits for the gyro slot while the gyro task stores into
\* it, the accel task holds its own lock and the gamepad task sleeps
C19_Witness ==
    /\ main_pc = "lock_g"
    /\ lock_owner["gyro"] = "gyro"
    /\ lock_owner["accel"] = "accel"
    /\ lock_owner["xstate"] = "free"
    /\ x_pc = "sleep"


(***************************************************************************)
(* The slots at the grain of one component: the 24 bytes of a GyroData are *)
(* not written or read in one instant, so the gyro task's store (line 108) *)
(* and the emission loop's copy (line 149) are taken one axis at a time,   *)
(* each inside the scope of its lock guard.                                *)
(***************************************************************************)
MaxSlotCycles == 1

\* where the gyro task is when it is about to store axis a
StorePc(a) ==
    CASE a = "x" -> "store"
      [] a = "y" -> "store_y"
      [] a = "z" -> "store_z"

\* where the emission loop is when it is about to copy axis a
CopyPc(a) ==
    CASE a = "x" -> "read_g"
      [] a = "y" -> "read_g_y"
      [] a = "z" -> "read_g_z"

\* lines 108-109: one axis of *locked_gyro = new_gyro_data; after the last one
\* the store is complete and the guard is dropped
GyroStoreAxis(a) ==
    /\ g_pc = StorePc(a)
    /\ gyro_mutex' = [gyro_mutex EXCEPT ![a] = g_local[a]]
    /\ g_pc' = CASE a = "x" -> StorePc("y")
                 [] a = "y" -> StorePc("z")
                 [] a = "z" -> "read"
    /\ published' = IF a = "z" THEN [published EXCEPT !["gyro"] = g_local] ELSE published
    /\ lock_owner' = IF a = "z" THEN [lock_owner EXCEPT !["gyro"] = "free"] ELSE lock_owner
    /\ g_local' = IF a = "z" THEN GyroDataDefault ELSE g_local
    /\ g_dev' = IF a = "z" THEN None ELSE g_dev
    /\ UNCHANGED <<startVars, xstate_mutex, accel_mutex, xVars,
                   previous_non_error_reading, broken_time, hist_good, hist_run,
                   aVars, emVars, pureVars, rumbleVars, worker_threads>>

\* lines 149-150: one axis of *locked_gyro is copied out; after the last one
\* the guard is dropped
EmitCopyAxis(a) ==
    /\ main_pc = CopyPc(a)
    /\ em_gyro' = [em_gyro EXCEPT ![a] = gyro_mutex[a]]
    /\ main_pc' = CASE a = "x" -> CopyPc("y")
                    [] a = "y" -> CopyPc("z")
                    [] a = "z" -> "lock_a"
    /\ lock_owner' = IF a = "z" THEN [lock_owner EXCEPT !["gyro"] = "free"] ELSE lock_owner
    /\ UNCHANGED <<share_flag, slotVars, xVars, gVars, aVars, em_xstate, em_accel,
                   timestamp, report, cycles, last_submit, paceVars, pureVars,
                   rumbleVars, worker_threads>>

\* two readings that differ on every axis; a failed read gives a third value
SlotGyroReadings == {GyroRaw(500, -500, 25000), GyroRaw(-300, 700, 40)}

InitSlot ==
    AfterStartup(FALSE, None, GyroTaskStart, AccelDataDefault)

NextSlot ==
    \/ XInputRead({XPressed}) \/ XInputLock \/ XInputStore \/ XInputSleep
    \/ GyroRead(SlotGyroReadings, 0) \/ GyroLock
    \/ \E a \in Axes : GyroStoreAxis(a)
    \/ AccelRead({Vec3(45, -120, 38)}) \/ AccelLock \/ AccelStore
    \/ EmitTick(MaxSlotCycles, {IntervalMicros}, 0)
    \/ EmitLock \/ EmitReadX
    \/ \E a \in Axes : EmitCopyAxis(a)
    \/ EmitReadA \/ EmitBuild \/ EmitSubmit

SpecSlot == InitSlot /\ [][NextSlot]_vars

\* C20: the value the emission loop has copied out of a slot when it drops the
\* lock is the whole value of the latest completed publish to that slot (or the
\* slot's initial value), and a task that is about to publish needs only the
\* slot's lock to be free, whether or not the emission loop has read the
\* previous publish.
C20_LatestWholeValue ==
    [][/\ (main_pc = "read_x" /\ main_pc' = "lock_g") =>
            em_xstate' = published["xstate"]
       /\ (main_pc = CopyPc("z") /\ main_pc' = "lock_a") =>
            em_gyro' = published["gyro"]
       /\ (main_pc = "read_a" /\ main_pc' = "build") =>
            em_accel' = published["accel"]
       /\ (lock_owner["gyro"] = "free") => gyro_mutex = published["gyro"]
       /\ (x_pc = "lock" /\ lock_owner["xstate"] = "free") => ENABLED XInputLock
       /\ (g_pc = "lock" /\ lock_owner["gyro"] = "free") => ENABLED GyroLock
       /\ (a_pc = "lock" /\ lock_owner["accel"] = "free") => ENABLED AccelLock]_vars

\* the emission loop holds a whole gyro value it copied, the latest publish at
\* the time, while the gyro task is half way through storing the next one
C20_Witness ==
    /\ main_pc = "lock_a"
    /\ em_gyro = published["gyro"]
    /\ em_gyro = og_gyro_data(Some(GyroRaw(500, -500, 25000)))
    /\ g_pc = StorePc("y")
    /\ gyro_mutex # published["gyro"]
    /\ em_xstate = Some(XPressed)

====
